---- MODULE Spec2Model ----
(***************************************************************************)
(* Event-based video recording system: the ring buffer of VideoBuffer,     *)
(* the capture loop that fills it, clip assembly (save_event_clip), the    *)
(* live-frame request (get_current_frame) and stop_buffering, as threads   *)
(* interleaving at the granularity of their accesses to shared state.      *)
(*                                                                         *)
(* Frames are identified by the order in which the capture device hands    *)
(* them out: frame k is the k-th frame any cap.read() returned with        *)
(* ret = True.  The wall clock (datetime.now()) is measured on the same    *)
(* scale: it reads the number of frames the device has delivered so far.   *)
(***************************************************************************)
EXTENDS Integers, Sequences, FiniteSets, TLC

\* config.py, scaled down to keep the state space finite and small: the code
\* has BUFFER_SECONDS = 15, POST_EVENT_SECONDS = 15 and FPS = 20.
BUFFER_SECONDS == 1
POST_EVENT_SECONDS == 1
FPS == 2

\* Number of frames the capture device delivers in a run of the model.
MaxFrames == 4

\* Number of on_event_detected invocations, and of events the detector
\* delivers, in a run of the model.
MaxEvents == 3

\* MockEventDetector.min_event_interval, in seconds.
MinEventInterval == 3

\* The last second the clock of the model reaches.
MaxTime == 7

\* The threads that call save_event_clip: the detection thread's callback and
\* a manual trigger from the main / HTTP thread.
Clips == {"detector", "manual"}

\* The threads that run _buffer_loop: every successful start_buffering spawns
\* one, "loop" first.
Loops == {"loop", "loop2"}

\* The threads that run _detection_loop: every start_detection that finds
\* is_running false spawns one, "det" first.
Detectors == {"det", "det2"}

\* the retention periods a cleanup is called with, in seconds of the clock
MaxDays == 2

\* config.EVENT_TYPES, two of the four
EventTypes == {"person_detected", "vehicle_detected"}

\* Python's None.
None == "None"

VARIABLES
    buffer,               \* VideoBuffer.buffer (deque of frames)
    frame_timestamps,     \* VideoBuffer.frame_timestamps (deque)
    cap,                  \* VideoBuffer.cap: None, "open", "unopened", "released"
    is_recording,         \* VideoBuffer.is_recording
    buffer_lock,          \* holder of VideoBuffer.buffer_lock, or "free"
    src,                  \* frames the device has delivered so far
    readBy,               \* history: readBy[k] is the thread that read frame k
    pushed,               \* history: the <<frame, time>> pairs appended to the deques
    loop_pc,              \* per _buffer_loop thread: position
    loop_frame,           \* _buffer_loop: frame
    loop_time,            \* _buffer_loop: current_time
    clip_pc,              \* per caller of save_event_clip: position
    buffered_frames,      \* save_event_clip: buffered_frames
    buffered_timestamps,  \* save_event_clip: buffered_timestamps
    out,                  \* save_event_clip: the cv2.VideoWriter
    sink,                 \* frames written to that writer, in order
    frames_written,       \* save_event_clip: frames_written
    post_i,               \* save_event_clip: iterations of the post-roll loop done
    clip_info,            \* save_event_clip: the value returned
    stop_pc,              \* position of the thread calling stop_buffering
    view_pc,              \* position of the thread calling get_current_frame
    info_pc,              \* position of the thread calling get_buffer_info
    start_result,         \* what the last start_buffering returned
    is_running,           \* EventBasedRecordingSystem.is_running
    det_is_running,       \* MockEventDetector.is_running
    events_detected,      \* EventBasedRecordingSystem.events_detected
    clips_saved,          \* EventBasedRecordingSystem.clips_saved
    cb_pc,                \* per caller of on_event_detected: position
    cb_tmp,               \* on_event_detected: the value read by a += 1
    calls,                \* history: invocations of on_event_detected
    saved,                \* history: invocations that saved clip and metadata
    web_pc,               \* position of the web start_system after start_detection
    clock,                \* time.time(), in seconds
    last_event_time,      \* MockEventDetector.last_event_time
    det_pc,               \* per _detection_loop thread: position
    det_now,              \* _detection_loop: current_time
    det_wake,             \* _detection_loop: when its time.sleep(1.0) ends
    delivered,            \* history: <<time, source>> of the events given to the callback
    det_stop_pc,          \* position of the thread calling stop_detection
    det_join_at,          \* the time at which stop_detection began its join
    overlapped,           \* a detection loop was started while another was alive
    web_response,         \* WebVideoRecordingSystem: the last response of a handler
    latest_event,         \* WebVideoRecordingSystem.latest_event; <<>> is None
    metadata_file,        \* the catalog file events_metadata.json: a list of entries
    files,                \* the video files that exist, by path
    meta_pc,              \* per caller of save_event_metadata: position
    existing_metadata,    \* save_event_metadata: existing_metadata
    cleanup_pc,           \* position of the caller of cleanup_old_events
    cleanup_metadata,     \* cleanup_old_events: metadata
    cutoff_date,          \* cleanup_old_events: cutoff_date
    cleanup_result,       \* what the last cleanup_old_events returned
    filepath              \* save_event_clip: filepath, <<second, type>>; <<>> before it is built

vars == <<buffer, frame_timestamps, cap, is_recording, buffer_lock, src, readBy,
          pushed, loop_pc, loop_frame, loop_time, clip_pc, buffered_frames,
          buffered_timestamps, out, sink, frames_written, post_i, clip_info,
          stop_pc, view_pc, info_pc,
          start_result, is_running, det_is_running, events_detected,
          clips_saved, cb_pc, cb_tmp, calls, saved, web_pc, clock,
          last_event_time, det_pc, det_now, det_wake, delivered, det_stop_pc,
          det_join_at, overlapped,
          web_response,
          latest_event,
          metadata_file,
          files,
          meta_pc,
          existing_metadata,
          cleanup_pc,
          cleanup_metadata,
          cutoff_date,
          cleanup_result,
          filepath>>

sharedVars == <<buffer, frame_timestamps, cap, is_recording, buffer_lock>>
deviceVars == <<src, readBy>>
loopVars == <<loop_pc, loop_frame, loop_time>>
clipVars == <<clip_pc, buffered_frames, buffered_timestamps, out, sink,
              frames_written, post_i, clip_info>>
sysVars == <<start_result, is_running, det_is_running>>
webVars == <<web_response, latest_event>>
metaVars == <<metadata_file, files, meta_pc, existing_metadata, cleanup_pc,
              cleanup_metadata, cutoff_date, cleanup_result>>
extVars == <<webVars, metaVars, filepath>>
cntVars == <<events_detected, clips_saved, cb_pc, cb_tmp, calls, saved, web_pc,
             extVars>>
detVars == <<clock, last_event_time, det_pc, det_now, det_wake, delivered,
             det_stop_pc, det_join_at, overlapped>>
restVars == <<info_pc, sysVars, cntVars, detVars>>
bufVars == <<sharedVars, deviceVars, pushed, loopVars, clipVars, stop_pc,
             view_pc, info_pc>>

----------------------------------------------------------------------------
\* Pure helpers.

Capacity == BUFFER_SECONDS * FPS

PostEventFrames == POST_EVENT_SECONDS * FPS

\* A deque without maxlen: nothing is ever dropped.
LastN_All(s, n) == s

\* The last n elements of s (all of s when it is shorter).
LastN(s, n) == IF Len(s) <= n THEN s ELSE SubSeq(s, Len(s) - n + 1, Len(s))

\* A deque that refuses the new element when full instead of evicting.
DequeAppend_KeepOldest(q, x) == IF Len(q) >= Capacity THEN q ELSE Append(q, x)

\* deque(maxlen=Capacity).append(x): the oldest element falls out when full.
DequeAppend(q, x) == LastN(Append(q, x), Capacity)

\* A lock that never excludes anybody.
CanAcquire_Always(lock) == TRUE

\* threading.Lock: acquirable only when no thread holds it.
CanAcquire(lock) == lock = "free"

\* A with-block that keeps the lock on leaving.
Release_Leak(holder) == holder

\* Leaving "with self.buffer_lock": the lock is free again.
Release(holder) == "free"

\* datetime.now(), in frames delivered by the device.
Now == src

\* The empty-buffer check left out.
NoFramesToSave_Never(frames) == FALSE

\* len(buffered_frames) == 0: save_event_clip gives up.
NoFramesToSave(frames) == Len(frames) = 0

Reverse(s) == [i \in 1..Len(s) |-> s[Len(s) + 1 - i]]

\* The pre-roll written newest first.
WritePreRoll_Reversed(written, frames) == written \o Reverse(frames)

\* The pre-roll written without its oldest frame.
WritePreRoll_DropOldest(written, frames) ==
    written \o (IF Len(frames) = 0 THEN frames ELSE Tail(frames))

\* for frame in buffered_frames: out.write(frame)
WritePreRoll(written, frames) == written \o frames

\* Integer division: the fraction of a second is dropped.
Duration_Floor(n) == [whole |-> n \div FPS, parts |-> 0]

\* frames_written / config.FPS, as whole seconds and remaining 1/FPS parts.
Duration(n) == [whole |-> n \div FPS, parts |-> n % FPS]

\* What save_event_clip returns: the clip_info dict, or None.  "pending"
\* stands for a call that has not returned.
ClipInfo(n) == [kind |-> "clip", frames_count |-> n, duration |-> Duration(n)]
NoClip_EmptyClip == ClipInfo(0)
NoClip == [kind |-> "None"]
Pending == [kind |-> "pending"]

----------------------------------------------------------------------------
Init ==
    /\ buffer = <<>>
    /\ frame_timestamps = <<>>
    /\ cap = None
    /\ is_recording = FALSE
    /\ buffer_lock = "free"
    /\ src = 0
    /\ readBy = <<>>
    /\ pushed = <<>>
    /\ loop_pc = [l \in Loops |-> "unborn"]
    /\ loop_frame = [l \in Loops |-> 0]
    /\ loop_time = [l \in Loops |-> 0]
    /\ clip_pc = [c \in Clips |-> "idle"]
    /\ buffered_frames = [c \in Clips |-> <<>>]
    /\ buffered_timestamps = [c \in Clips |-> <<>>]
    /\ out = [c \in Clips |-> None]
    /\ sink = [c \in Clips |-> <<>>]
    /\ frames_written = [c \in Clips |-> 0]
    /\ post_i = [c \in Clips |-> 0]
    /\ clip_info = [c \in Clips |-> Pending]
    /\ stop_pc = "idle"
    /\ view_pc = "idle"
    /\ info_pc = "idle"
    /\ start_result = None
    /\ is_running = FALSE
    /\ det_is_running = FALSE
    /\ events_detected = 0
    /\ clips_saved = 0
    /\ cb_pc = [c \in Clips |-> "idle"]
    /\ cb_tmp = [c \in Clips |-> 0]
    /\ calls = 0
    /\ saved = 0
    /\ web_pc = "detection_started"
    /\ clock = MinEventInterval
    /\ last_event_time = 0
    /\ det_pc = [d \in Detectors |-> "unborn"]
    /\ det_now = [d \in Detectors |-> 0]
    /\ det_wake = [d \in Detectors |-> 0]
    /\ delivered = <<>>
    /\ det_stop_pc = "idle"
    /\ det_join_at = 0
    /\ overlapped = FALSE
    /\ web_response = [op |-> "none", status |-> "none", message |-> "none"]
    /\ latest_event = <<>>
    /\ metadata_file = <<>>
    /\ files = {}
    /\ meta_pc = [c \in Clips |-> "idle"]
    /\ existing_metadata = [c \in Clips |-> <<>>]
    /\ cleanup_pc = "idle"
    /\ cleanup_metadata = <<>>
    /\ cutoff_date = 0
    /\ cleanup_result = [deleted_events |-> 0, remaining_events |-> 0]
    /\ filepath = [c \in Clips |-> <<>>]

----------------------------------------------------------------------------
\* The capture device.  cap.read() with ret = True hands out the next frame;
\* reads by different threads are served one after the other, and a read may
\* fail (ret = False) at any time.  A released or unopened capture only fails.

DeviceDelivers(reader) ==
    /\ cap = "open"
    /\ src < MaxFrames
    /\ src' = src + 1
    /\ readBy' = Append(readBy, reader)

----------------------------------------------------------------------------
\* start_buffering: initialize_camera, then the flag and the thread.

\* The _buffer_loop threads that are running.
Alive(l) == loop_pc[l] \notin {"unborn", "exited", "crashed"}

\* The thread the next start_buffering spawns.
NewLoop == IF loop_pc["loop"] = "unborn" THEN "loop" ELSE "loop2"

\* An initialize_camera that reports success whatever the device did.
InitializeCamera_AlwaysTrue(opened) == TRUE

\* initialize_camera returns whether self.cap.isOpened()
InitializeCamera(opened) == opened

\* start_buffering: self.cap = cv2.VideoCapture(0) whatever self.cap was; when
\* it did not open, return False with the unopened capture left in self.cap;
\* else self.is_recording = True, a new _buffer_loop thread, return True.
\* The caller's own variables (stop_pc, is_running, det_is_running) are set
\* by the caller.
StartBuffering ==
    /\ \E opened \in BOOLEAN :
           /\ cap' = IF opened THEN "open" ELSE "unopened"
           /\ IF InitializeCamera(opened)
              THEN /\ loop_pc[NewLoop] = "unborn"
                   /\ is_recording' = TRUE
                   /\ loop_pc' = [loop_pc EXCEPT ![NewLoop] = "while"]
                   /\ start_result' = "True"
              ELSE /\ start_result' = "False"
                   /\ UNCHANGED <<is_recording, loop_pc>>
    /\ UNCHANGED <<buffer, frame_timestamps, buffer_lock, deviceVars, pushed,
                   loop_frame, loop_time, clipVars, view_pc, info_pc, cntVars,
                   detVars>>

----------------------------------------------------------------------------
\* _buffer_loop, run by thread l

\* A loop that gives up after a failed read.
AfterFailedRead_Exit == "exited"

\* After the else branch the loop is back at the while test.
AfterFailedRead == "while"

\* while self.is_recording:
LoopWhile(l) ==
    /\ loop_pc[l] = "while"
    /\ loop_pc' = [loop_pc EXCEPT ![l] = IF is_recording THEN "read" ELSE "exited"]
    /\ UNCHANGED <<sharedVars, deviceVars, pushed, loop_frame,
                   loop_time, clipVars, stop_pc, view_pc, restVars>>

\* ret, frame = self.cap.read()
LoopRead(l) ==
    /\ loop_pc[l] = "read"
    /\ cap # None
    /\ \/ /\ DeviceDelivers(l)
          /\ loop_frame' = [loop_frame EXCEPT ![l] = src + 1]
          /\ loop_pc' = [loop_pc EXCEPT ![l] = "now"]
       \/ /\ loop_pc' = [loop_pc EXCEPT ![l] = "failed"]
          /\ UNCHANGED <<deviceVars, loop_frame>>
    /\ UNCHANGED <<sharedVars, pushed, loop_time, clipVars, stop_pc, view_pc,
                   restVars>>

\* else: print("Warning: Failed to read frame from camera"); time.sleep(0.1)
LoopReadFailed(l) ==
    /\ loop_pc[l] = "failed"
    /\ loop_pc' = [loop_pc EXCEPT ![l] = AfterFailedRead]
    /\ UNCHANGED <<sharedVars, deviceVars, pushed, loop_frame, loop_time,
                   clipVars, stop_pc, view_pc, restVars>>

\* self.cap is None by now: AttributeError ends the thread.
LoopReadNone(l) ==
    /\ loop_pc[l] = "read"
    /\ cap = None
    /\ loop_pc' = [loop_pc EXCEPT ![l] = "crashed"]
    /\ UNCHANGED <<sharedVars, deviceVars, pushed, loop_frame,
                   loop_time, clipVars, stop_pc, view_pc, restVars>>

\* current_time = datetime.now()
LoopNow(l) ==
    /\ loop_pc[l] = "now"
    /\ loop_time' = [loop_time EXCEPT ![l] = Now]
    /\ loop_pc' = [loop_pc EXCEPT ![l] = "lock"]
    /\ UNCHANGED <<sharedVars, deviceVars, pushed, loop_frame,
                   clipVars, stop_pc, view_pc, restVars>>

\* with self.buffer_lock: self.buffer.append(frame.copy())
LoopAppendFrame(l) ==
    /\ loop_pc[l] = "lock"
    /\ CanAcquire(buffer_lock)
    /\ buffer_lock' = l
    /\ buffer' = DequeAppend(buffer, loop_frame[l])
    /\ pushed' = Append(pushed, <<loop_frame[l], loop_time[l]>>)
    /\ loop_pc' = [loop_pc EXCEPT ![l] = "append_ts"]
    /\ UNCHANGED <<frame_timestamps, cap, is_recording, deviceVars, loop_frame, loop_time, clipVars, stop_pc, view_pc, restVars>>

\* self.frame_timestamps.append(current_time); the lock is released; sleep
LoopAppendTime(l) ==
    /\ loop_pc[l] = "append_ts"
    /\ frame_timestamps' = DequeAppend(frame_timestamps, loop_time[l])
    /\ buffer_lock' = Release(l)
    /\ loop_pc' = [loop_pc EXCEPT ![l] = "while"]
    /\ UNCHANGED <<buffer, cap, is_recording, deviceVars, pushed, loop_frame, loop_time, clipVars, stop_pc, view_pc, restVars>>

----------------------------------------------------------------------------
\* stop_buffering

\* A stop_buffering that releases whatever self.cap holds.
CapIsSet_Unchecked(c) == TRUE

\* if self.cap is not None:
CapIsSet(c) == c # None

\* stop_buffering is entered: self.is_recording = False.  is_running and
\* det_is_running belong to the caller.
StopFlag ==
    /\ stop_pc \in {"idle", "done"}
    /\ is_recording' = FALSE
    /\ stop_pc' = "release"
    /\ UNCHANGED <<buffer, frame_timestamps, cap, buffer_lock, deviceVars,
                   pushed, loopVars, clipVars, view_pc, info_pc, start_result,
                   cntVars, detVars>>

\* if self.cap is not None: self.cap.release()
StopRelease ==
    /\ stop_pc = "release"
    /\ IF CapIsSet(cap)
       THEN cap' = "released" /\ stop_pc' = "clear"
       ELSE cap' = cap /\ stop_pc' = "done"
    /\ UNCHANGED <<buffer, frame_timestamps, is_recording, buffer_lock,
                   deviceVars, pushed, loopVars, clipVars, view_pc, restVars>>

\* self.cap = None; cv2.destroyAllWindows()
StopClear ==
    /\ stop_pc = "clear"
    /\ cap' = None
    /\ stop_pc' = "done"
    /\ UNCHANGED <<buffer, frame_timestamps, is_recording, buffer_lock,
                   deviceVars, pushed, loopVars, clipVars, view_pc, restVars>>

----------------------------------------------------------------------------
\* save_event_clip(event_data), called by thread c

\* A post-roll that reads the capture whatever its state.
FeedLive_Always(rec, c) == TRUE

\* self.is_recording and self.cap is not None
FeedLive(rec, c) == rec /\ c # None

\* with self.buffer_lock: buffered_frames = list(self.buffer)
ClipSnapshotFrames(c) ==
    /\ clip_pc[c] = "idle"
    /\ CanAcquire(buffer_lock)
    /\ buffer_lock' = c
    /\ buffered_frames' = [buffered_frames EXCEPT ![c] = buffer]
    /\ clip_pc' = [clip_pc EXCEPT ![c] = "copy_ts"]
    /\ UNCHANGED <<buffer, frame_timestamps, cap, is_recording, deviceVars,
                   pushed, loopVars, buffered_timestamps, out, sink,
                   frames_written, post_i, clip_info, stop_pc, view_pc,
                   restVars>>

\* buffered_timestamps = list(self.frame_timestamps); the lock is released;
\* if len(buffered_frames) == 0: return None
ClipSnapshotTimes(c) ==
    /\ clip_pc[c] = "copy_ts"
    /\ buffered_timestamps' = [buffered_timestamps EXCEPT ![c] = frame_timestamps]
    /\ buffer_lock' = Release(c)
    /\ IF NoFramesToSave(buffered_frames[c])
       THEN /\ clip_info' = [clip_info EXCEPT ![c] = NoClip]
            /\ clip_pc' = [clip_pc EXCEPT ![c] = "done"]
       ELSE /\ clip_info' = clip_info
            /\ clip_pc' = [clip_pc EXCEPT ![c] = "open"]
    /\ UNCHANGED <<buffer, frame_timestamps, cap, is_recording, deviceVars,
                   pushed, loopVars, buffered_frames, out, sink,
                   frames_written, post_i, stop_pc, view_pc, restVars>>

\* out = cv2.VideoWriter(...); if not out.isOpened(): return None
ClipOpenWriter(c) ==
    /\ clip_pc[c] = "open"
    /\ \/ /\ out' = [out EXCEPT ![c] = "open"]
          /\ clip_pc' = [clip_pc EXCEPT ![c] = "preroll"]
          /\ clip_info' = clip_info
       \/ /\ out' = [out EXCEPT ![c] = "unopened"]
          /\ clip_pc' = [clip_pc EXCEPT ![c] = "done"]
          /\ clip_info' = [clip_info EXCEPT ![c] = NoClip]
    /\ UNCHANGED <<sharedVars, deviceVars, pushed, loopVars, buffered_frames,
                   buffered_timestamps, sink, frames_written, post_i,
                   stop_pc, view_pc, restVars>>

\* A snapshot that is a view of the deque, not a copy.
SnapshotOf_Live(copy, live) == live

\* list(self.buffer) is a new list: what the for loop iterates is the copy,
\* whatever the deque holds by then.
SnapshotOf(copy, live) == copy

\* frames_written = 0; for frame in buffered_frames: out.write(frame);
\* frames_written += 1
ClipWritePreRoll(c) ==
    /\ clip_pc[c] = "preroll"
    /\ sink' = [sink EXCEPT ![c] =
                    WritePreRoll(sink[c], SnapshotOf(buffered_frames[c], buffer))]
    /\ frames_written' = [frames_written EXCEPT ![c] = Len(buffered_frames[c])]
    /\ clip_pc' = [clip_pc EXCEPT ![c] = "post_check"]
    /\ UNCHANGED <<sharedVars, deviceVars, pushed, loopVars, buffered_frames,
                   buffered_timestamps, out, post_i, clip_info, stop_pc,
                   view_pc, restVars>>

\* A post-roll loop that stops after its first iteration.
NextIteration_Early(i) == "finish"

\* The position after one iteration of for _ in range(post_event_frames).
NextIteration(i) == IF i + 1 >= PostEventFrames THEN "finish" ELSE "post_check"

\* if self.is_recording and self.cap is not None: ... else only the sleep
ClipPostCheck(c) ==
    /\ clip_pc[c] = "post_check"
    /\ IF FeedLive(is_recording, cap)
       THEN /\ clip_pc' = [clip_pc EXCEPT ![c] = "post_read"]
            /\ post_i' = post_i
       ELSE /\ clip_pc' = [clip_pc EXCEPT ![c] = NextIteration(post_i[c])]
            /\ post_i' = [post_i EXCEPT ![c] = @ + 1]
    /\ UNCHANGED <<sharedVars, deviceVars, pushed, loopVars, buffered_frames,
                   buffered_timestamps, out, sink, frames_written, clip_info,
                   stop_pc, view_pc, restVars>>

\* ret, frame = self.cap.read(); if ret: out.write(frame); frames_written += 1
\* then the sleep
ClipPostRead(c) ==
    /\ clip_pc[c] = "post_read"
    /\ cap # None
    /\ \/ /\ DeviceDelivers(c)
          /\ sink' = [sink EXCEPT ![c] = Append(@, src + 1)]
          /\ frames_written' = [frames_written EXCEPT ![c] = @ + 1]
       \/ UNCHANGED <<deviceVars, sink, frames_written>>
    /\ clip_pc' = [clip_pc EXCEPT ![c] = NextIteration(post_i[c])]
    /\ post_i' = [post_i EXCEPT ![c] = @ + 1]
    /\ UNCHANGED <<sharedVars, pushed, loopVars, buffered_frames,
                   buffered_timestamps, out, clip_info, stop_pc, view_pc, restVars>>

\* self.cap is None by now: AttributeError, caught by except Exception,
\* which prints and returns None (out.release() is skipped).
ClipPostReadNone(c) ==
    /\ clip_pc[c] = "post_read"
    /\ cap = None
    /\ clip_info' = [clip_info EXCEPT ![c] = NoClip]
    /\ clip_pc' = [clip_pc EXCEPT ![c] = "done"]
    /\ UNCHANGED <<sharedVars, deviceVars, pushed, loopVars, buffered_frames,
                   buffered_timestamps, out, sink, frames_written, post_i,
                   stop_pc, view_pc, restVars>>

\* out.write(frame) raises inside the pre-roll loop after k frames: except
\* Exception prints and returns None (out.release() is skipped).
ClipPreRollRaises(c) ==
    /\ clip_pc[c] = "preroll"
    /\ \E k \in 0..(Len(buffered_frames[c]) - 1) :
           /\ sink' = [sink EXCEPT ![c] =
                           WritePreRoll(@, SubSeq(buffered_frames[c], 1, k))]
           /\ frames_written' = [frames_written EXCEPT ![c] = k]
    /\ clip_info' = [clip_info EXCEPT ![c] = NoClip]
    /\ clip_pc' = [clip_pc EXCEPT ![c] = "done"]
    /\ UNCHANGED <<sharedVars, deviceVars, pushed, loopVars, buffered_frames,
                   buffered_timestamps, out, post_i, stop_pc, view_pc,
                   restVars>>

\* The read succeeds and out.write(frame) raises in the post-roll loop:
\* except Exception prints and returns None (out.release() is skipped).
ClipPostWriteRaises(c) ==
    /\ clip_pc[c] = "post_read"
    /\ cap # None
    /\ DeviceDelivers(c)
    /\ clip_info' = [clip_info EXCEPT ![c] = NoClip]
    /\ clip_pc' = [clip_pc EXCEPT ![c] = "done"]
    /\ UNCHANGED <<sharedVars, pushed, loopVars, buffered_frames,
                   buffered_timestamps, out, sink, frames_written, post_i,
                   stop_pc, view_pc, restVars>>

\* out.release(); actual_duration = ...; return clip_info
ClipFinish(c) ==
    /\ clip_pc[c] = "finish"
    /\ out' = [out EXCEPT ![c] = "released"]
    /\ clip_info' = [clip_info EXCEPT ![c] = ClipInfo(frames_written[c])]
    /\ clip_pc' = [clip_pc EXCEPT ![c] = "done"]
    /\ UNCHANGED <<sharedVars, deviceVars, pushed, loopVars, buffered_frames,
                   buffered_timestamps, sink, frames_written, post_i,
                   stop_pc, view_pc, restVars>>

----------------------------------------------------------------------------
\* get_current_frame, called from the web interface

\* if self.cap is not None: ... else return None
ViewCheck ==
    /\ view_pc = "idle"
    /\ view_pc' = IF cap # None THEN "read" ELSE "returned"
    /\ UNCHANGED <<sharedVars, deviceVars, pushed, loopVars, clipVars, stop_pc, restVars>>

\* ret, frame = self.cap.read(); return frame or None
ViewRead ==
    /\ view_pc = "read"
    /\ cap # None
    /\ \/ DeviceDelivers("viewer")
       \/ UNCHANGED deviceVars
    /\ view_pc' = "returned"
    /\ UNCHANGED <<sharedVars, pushed, loopVars, clipVars, stop_pc, restVars>>

\* self.cap is None by now: AttributeError reaches the caller.
ViewReadNone ==
    /\ view_pc = "read"
    /\ cap = None
    /\ view_pc' = "raised"
    /\ UNCHANGED <<sharedVars, deviceVars, pushed, loopVars, clipVars, stop_pc, restVars>>

----------------------------------------------------------------------------
\* get_buffer_info, polled by the status display

\* with self.buffer_lock: buffer_size = len(self.buffer)
InfoLock ==
    /\ info_pc = "idle"
    /\ CanAcquire(buffer_lock)
    /\ buffer_lock' = "info"
    /\ info_pc' = "locked"
    /\ UNCHANGED <<buffer, frame_timestamps, cap, is_recording, deviceVars,
                   pushed, loopVars, clipVars, stop_pc, view_pc, sysVars,
                   cntVars, detVars>>

\* buffer_seconds = ...; the lock is released; return the dict
InfoRelease ==
    /\ info_pc = "locked"
    /\ buffer_lock' = Release("info")
    /\ info_pc' = "idle"
    /\ UNCHANGED <<buffer, frame_timestamps, cap, is_recording, deviceVars,
                   pushed, loopVars, clipVars, stop_pc, view_pc, sysVars,
                   cntVars, detVars>>

----------------------------------------------------------------------------
\* on_event_detected(event_data), called by thread c: the detection thread's
\* callback and a manual trigger.  self.x += 1 reads the attribute, adds and
\* stores it; another thread may run between the read and the store.

\* A += 1 that counts from the value the attribute has when it is stored.
Increment_Atomic(seen, current) == current + 1

\* The store of self.x += 1: the value read before, plus one.
Increment(seen, current) == seen + 1

\* on_event_detected is entered; self.events_detected is read
CbReadEvents(c) ==
    /\ cb_pc[c] = "idle"
    /\ calls < MaxEvents
    /\ calls' = calls + 1
    /\ cb_tmp' = [cb_tmp EXCEPT ![c] = events_detected]
    /\ cb_pc' = [cb_pc EXCEPT ![c] = "store_events"]
    /\ UNCHANGED <<bufVars, sysVars, detVars, events_detected, clips_saved,
                   saved, web_pc, extVars>>

\* self.events_detected is stored
CbStoreEvents(c) ==
    /\ cb_pc[c] = "store_events"
    /\ events_detected' = Increment(cb_tmp[c], events_detected)
    /\ cb_pc' = [cb_pc EXCEPT ![c] = "save"]
    /\ UNCHANGED <<bufVars, sysVars, detVars, clips_saved, cb_tmp, calls,
                   saved, web_pc, extVars>>

\* clip_info = save_event_clip(event_data); metadata =
\* save_event_metadata(clip_info): either may come back None, and then
\* nothing is counted
CbSave(c) ==
    /\ cb_pc[c] = "save"
    /\ \E ok \in BOOLEAN :
           /\ cb_pc' = [cb_pc EXCEPT ![c] = IF ok THEN "read_clips" ELSE "idle"]
           /\ saved' = IF ok THEN saved + 1 ELSE saved
    /\ UNCHANGED <<bufVars, sysVars, detVars, events_detected, clips_saved,
                   cb_tmp, calls, web_pc, extVars>>

\* self.clips_saved is read
CbReadClips(c) ==
    /\ cb_pc[c] = "read_clips"
    /\ cb_tmp' = [cb_tmp EXCEPT ![c] = clips_saved]
    /\ cb_pc' = [cb_pc EXCEPT ![c] = "store_clips"]
    /\ UNCHANGED <<bufVars, sysVars, detVars, events_detected, clips_saved,
                   calls, saved, web_pc, extVars>>

\* self.clips_saved is stored; on_event_detected returns
CbStoreClips(c) ==
    /\ cb_pc[c] = "store_clips"
    /\ clips_saved' = Increment(cb_tmp[c], clips_saved)
    /\ cb_pc' = [cb_pc EXCEPT ![c] = "idle"]
    /\ UNCHANGED <<bufVars, sysVars, detVars, events_detected, cb_tmp, calls,
                   saved, web_pc, extVars>>

\* WebVideoRecordingSystem.start_system, after start_detection():
\* self.events_detected = 0; self.clips_saved = 0; return
WebResetCounters ==
    /\ web_pc = "detection_started"
    /\ events_detected' = 0
    /\ clips_saved' = 0
    /\ web_pc' = "returned"
    /\ UNCHANGED <<bufVars, sysVars, detVars, cb_pc, cb_tmp, calls, saved,
                   extVars>>

----------------------------------------------------------------------------
\* MockEventDetector.  Time is counted in whole seconds; Tick lets a second
\* pass, during a sleep, a callback or anything else.

Tick ==
    /\ clock < MaxTime
    /\ clock' = clock + 1
    /\ UNCHANGED <<bufVars, sysVars, cntVars, last_event_time, det_pc, det_now,
                   det_wake, delivered, det_stop_pc, det_join_at, overlapped>>

\* The _detection_loop threads that are running.
DetAlive(d) == det_pc[d] \notin {"unborn", "exited"}

\* The thread the next spawning start_detection creates.
NewDetector == IF det_pc["det"] = "unborn" THEN "det" ELSE "det2"

\* self.detection_thread: the thread spawned last.
DetectionThread == IF det_pc["det2"] # "unborn" THEN "det2" ELSE "det"

\* A detector that fires whenever its random draw says so.
IntervalPassed_Always(now, last) == TRUE

\* current_time - self.last_event_time >= self.min_event_interval
IntervalPassed(now, last) == now - last >= MinEventInterval

\* start_detection: if self.is_running: return; else self.is_running = True
\* and a new _detection_loop thread.  The caller is not inside
\* stop_detection.
StartDetection ==
    /\ det_stop_pc = "idle"
    /\ IF det_is_running
       THEN UNCHANGED <<det_is_running, det_pc>>
       ELSE /\ det_pc[NewDetector] = "unborn"
            /\ det_is_running' = TRUE
            /\ det_pc' = [det_pc EXCEPT ![NewDetector] = "while"]
    /\ overlapped' = (overlapped \/
                      (~det_is_running /\ \E d \in Detectors : DetAlive(d)))
    /\ UNCHANGED <<bufVars, start_result, is_running, cntVars, clock,
                   last_event_time, det_now, det_wake, delivered, det_stop_pc,
                   det_join_at>>

\* while self.is_running:
DetWhile(d) ==
    /\ det_pc[d] = "while"
    /\ det_pc' = [det_pc EXCEPT ![d] = IF det_is_running THEN "check" ELSE "exited"]
    /\ UNCHANGED <<bufVars, sysVars, cntVars, clock, last_event_time, det_now,
                   det_wake, delivered, det_stop_pc, det_join_at, overlapped>>

\* current_time = time.time(); if the interval has passed and
\* random.random() < EVENT_PROBABILITY: the event is generated and
\* self.event_callback(event) is entered; otherwise on to the sleep.
\* det_now is the local current_time, kept while it is still to be read
\* (line 45); det_wake is the end of the sleep, kept while sleeping.
DetCheck(d) ==
    /\ det_pc[d] = "check"
    /\ \/ /\ IntervalPassed(clock, last_event_time)
          /\ Len(delivered) < MaxEvents
          /\ delivered' = Append(delivered, <<clock, d>>)
          /\ det_now' = [det_now EXCEPT ![d] = clock]
          /\ det_pc' = [det_pc EXCEPT ![d] = "callback"]
          /\ det_wake' = det_wake
       \/ /\ det_pc' = [det_pc EXCEPT ![d] = "sleep"]
          /\ det_wake' = [det_wake EXCEPT ![d] = clock + 1]
          /\ UNCHANGED <<delivered, det_now>>
    /\ UNCHANGED <<bufVars, sysVars, cntVars, clock, last_event_time,
                   det_stop_pc, det_join_at, overlapped>>

\* the callback returns; self.last_event_time = current_time; time.sleep(1.0)
\* begins
DetCallbackReturns(d) ==
    /\ det_pc[d] = "callback"
    /\ last_event_time' = det_now[d]
    /\ det_now' = [det_now EXCEPT ![d] = 0]
    /\ det_wake' = [det_wake EXCEPT ![d] = clock + 1]
    /\ det_pc' = [det_pc EXCEPT ![d] = "sleep"]
    /\ UNCHANGED <<bufVars, sysVars, cntVars, clock, delivered,
                   det_stop_pc, det_join_at, overlapped>>

\* time.sleep(1.0) ends
DetSleep(d) ==
    /\ det_pc[d] = "sleep"
    /\ clock >= det_wake[d]
    /\ det_wake' = [det_wake EXCEPT ![d] = 0]
    /\ det_pc' = [det_pc EXCEPT ![d] = "while"]
    /\ UNCHANGED <<bufVars, sysVars, cntVars, clock, last_event_time, det_now,
                   delivered, det_stop_pc, det_join_at, overlapped>>

\* simulate_specific_event: the event is built and, the callback being set,
\* self.event_callback(event) is called in the caller's thread
SimulateSpecificEvent ==
    /\ Len(delivered) < MaxEvents
    /\ delivered' = Append(delivered, <<clock, "manual">>)
    /\ UNCHANGED <<bufVars, sysVars, cntVars, clock, last_event_time, det_pc,
                   det_now, det_wake, det_stop_pc, det_join_at,
                   overlapped>>

\* join(timeout=2)
JoinTimeout == 2

\* stop_detection: self.is_running = False
StopDetection ==
    /\ det_stop_pc = "idle"
    /\ det_is_running' = FALSE
    /\ det_stop_pc' = "join"
    /\ det_join_at' = clock
    /\ UNCHANGED <<bufVars, start_result, is_running, cntVars, clock,
                   last_event_time, det_pc, det_now, det_wake, delivered,
                   overlapped>>

\* if self.detection_thread and self.detection_thread.is_alive():
\* self.detection_thread.join(timeout=2).  The join ends when the thread has
\* ended, or after 2 seconds; a thread in its one-second sleep ends within
\* that time, a thread inside the callback (a clip save lasts the whole
\* post-roll) need not.
StopJoinReturns ==
    /\ det_stop_pc = "join"
    /\ \/ ~DetAlive(DetectionThread)
       \/ /\ det_pc[DetectionThread] = "callback"
          /\ clock >= det_join_at + JoinTimeout
    /\ det_stop_pc' = "idle"
    /\ det_join_at' = 0
    /\ UNCHANGED <<bufVars, sysVars, cntVars, clock, last_event_time, det_pc,
                   det_now, det_wake, delivered, overlapped>>

----------------------------------------------------------------------------
\* One recording session: start_buffering is called once, stop_buffering at
\* most once and only after the capture loop was started, both directly on
\* the VideoBuffer.
SessionStart ==
    /\ start_result = None
    /\ StartBuffering
    /\ UNCHANGED <<stop_pc, is_running, det_is_running>>

SessionStop ==
    /\ stop_pc = "idle"
    /\ loop_pc["loop"] # "unborn"
    /\ StopFlag
    /\ UNCHANGED <<is_running, det_is_running>>

Next ==
    \/ SessionStart
    \/ \E l \in Loops : LoopWhile(l)
    \/ \E l \in Loops : LoopRead(l)
    \/ \E l \in Loops : LoopReadFailed(l)
    \/ \E l \in Loops : LoopReadNone(l)
    \/ \E l \in Loops : LoopNow(l)
    \/ \E l \in Loops : LoopAppendFrame(l)
    \/ \E l \in Loops : LoopAppendTime(l)
    \/ SessionStop
    \/ StopRelease
    \/ StopClear
    \/ \E c \in Clips : ClipSnapshotFrames(c)
    \/ \E c \in Clips : ClipSnapshotTimes(c)
    \/ \E c \in Clips : ClipOpenWriter(c)
    \/ \E c \in Clips : ClipWritePreRoll(c)
    \/ \E c \in Clips : ClipPostCheck(c)
    \/ \E c \in Clips : ClipPostRead(c)
    \/ \E c \in Clips : ClipPostReadNone(c)
    \/ \E c \in Clips : ClipFinish(c)
    \/ ViewCheck
    \/ ViewRead
    \/ ViewReadNone

Spec == Init /\ [][Next]_vars

\* The users of buffer_lock on a running capture: the capture loop, the
\* save_event_clip callers and a thread polling get_buffer_info.
LockNext ==
    \/ SessionStart
    \/ \E l \in Loops : LoopWhile(l)
    \/ \E l \in Loops : LoopRead(l)
    \/ \E l \in Loops : LoopReadFailed(l)
    \/ \E l \in Loops : LoopNow(l)
    \/ \E l \in Loops : LoopAppendFrame(l)
    \/ \E l \in Loops : LoopAppendTime(l)
    \/ \E c \in Clips : ClipSnapshotFrames(c)
    \/ \E c \in Clips : ClipSnapshotTimes(c)
    \/ \E c \in Clips : ClipOpenWriter(c)
    \/ \E c \in Clips : ClipWritePreRoll(c)
    \/ \E c \in Clips : ClipPostCheck(c)
    \/ \E c \in Clips : ClipPostRead(c)
    \/ \E c \in Clips : ClipFinish(c)
    \/ InfoLock
    \/ InfoRelease

LockSpec == Init /\ [][LockNext]_vars

\* Clip assemblies whose writer may raise, on a running capture.
SinkNext ==
    \/ SessionStart
    \/ \E l \in Loops : LoopWhile(l)
    \/ \E l \in Loops : LoopRead(l)
    \/ \E l \in Loops : LoopReadFailed(l)
    \/ \E l \in Loops : LoopNow(l)
    \/ \E l \in Loops : LoopAppendFrame(l)
    \/ \E l \in Loops : LoopAppendTime(l)
    \/ \E c \in Clips : ClipSnapshotFrames(c)
    \/ \E c \in Clips : ClipSnapshotTimes(c)
    \/ \E c \in Clips : ClipOpenWriter(c)
    \/ \E c \in Clips : ClipWritePreRoll(c)
    \/ \E c \in Clips : ClipPreRollRaises(c)
    \/ \E c \in Clips : ClipPostCheck(c)
    \/ \E c \in Clips : ClipPostRead(c)
    \/ \E c \in Clips : ClipPostWriteRaises(c)
    \/ \E c \in Clips : ClipFinish(c)

SinkSpec == Init /\ [][SinkNext]_vars

\* Triggers that arrive while the live feed is down: before the capture was
\* started, after a start that failed, or after stop_buffering cleared the
\* flag.
TriggerFeedDown(c) ==
    /\ ~(is_recording /\ cap # None)
    /\ ClipSnapshotFrames(c)

DownNext ==
    \/ SessionStart
    \/ \E l \in Loops : LoopWhile(l)
    \/ \E l \in Loops : LoopRead(l)
    \/ \E l \in Loops : LoopReadFailed(l)
    \/ \E l \in Loops : LoopReadNone(l)
    \/ \E l \in Loops : LoopNow(l)
    \/ \E l \in Loops : LoopAppendFrame(l)
    \/ \E l \in Loops : LoopAppendTime(l)
    \/ SessionStop
    \/ StopRelease
    \/ StopClear
    \/ \E c \in Clips : TriggerFeedDown(c)
    \/ \E c \in Clips : ClipSnapshotTimes(c)
    \/ \E c \in Clips : ClipOpenWriter(c)
    \/ \E c \in Clips : ClipWritePreRoll(c)
    \/ \E c \in Clips : ClipPostCheck(c)
    \/ \E c \in Clips : ClipFinish(c)

DownSpec == Init /\ [][DownNext]_vars

\* EventBasedRecordingSystem.start_system: start_buffering; on failure return
\* False; else set the callback, start_detection (which sets the detector's
\* is_running) and self.is_running = True.  The caller is not inside
\* stop_system.
StartSystem ==
    /\ stop_pc \in {"idle", "done"}
    /\ StartBuffering
    /\ IF start_result' = "True"
       THEN is_running' = TRUE /\ det_is_running' = TRUE
       ELSE UNCHANGED <<is_running, det_is_running>>
    /\ stop_pc' = stop_pc

\* EventBasedRecordingSystem.stop_system: self.is_running = False,
\* stop_detection (clears the detector's is_running), then stop_buffering.
StopSystem ==
    /\ StopFlag
    /\ is_running' = FALSE
    /\ det_is_running' = FALSE

\* The life cycle: one caller starts and stops the system any number of
\* times, in any order, while the capture loops it has spawned run.
LifeNext ==
    \/ StartSystem
    \/ StopSystem
    \/ StopRelease
    \/ StopClear
    \/ \E l \in Loops : LoopWhile(l)
    \/ \E l \in Loops : LoopRead(l)
    \/ \E l \in Loops : LoopReadFailed(l)
    \/ \E l \in Loops : LoopReadNone(l)
    \/ \E l \in Loops : LoopNow(l)
    \/ \E l \in Loops : LoopAppendFrame(l)
    \/ \E l \in Loops : LoopAppendTime(l)

LifeSpec == Init /\ [][LifeNext]_vars

\* The counters of the console system: the detection thread and a manual
\* trigger run on_event_detected, each any number of times.
CountNext ==
    \/ \E c \in Clips : CbReadEvents(c)
    \/ \E c \in Clips : CbStoreEvents(c)
    \/ \E c \in Clips : CbSave(c)
    \/ \E c \in Clips : CbReadClips(c)
    \/ \E c \in Clips : CbStoreClips(c)

CountSpec == Init /\ [][CountNext]_vars

\* The counters of the web system: the same callbacks, and start_system
\* resetting the counters after it has started the detection thread.
WebCountNext ==
    \/ \E c \in Clips : CbReadEvents(c)
    \/ \E c \in Clips : CbStoreEvents(c)
    \/ \E c \in Clips : CbSave(c)
    \/ \E c \in Clips : CbReadClips(c)
    \/ \E c \in Clips : CbStoreClips(c)
    \/ WebResetCounters

WebCountSpec == Init /\ [][WebCountNext]_vars

\* The web system (app.py).  Each handler is one request; a response is the
\* dictionary the handler returns.
Response(op, status, message) == [op |-> op, status |-> status, message |-> message]

\* A handler that runs its body whatever its guard found.
Proceeds_Always(rejected) == TRUE

\* `if <guard>: return {"status": "error", ...}`: the rest of the handler
\* runs only when the guard did not reject the request.
Proceeds(rejected) == ~rejected

\* The response of a handler whose guard rejected the request, or else the
\* response its body arrived at.
Answer(rejected, op, message, other) ==
    IF rejected THEN Response(op, "error", message) ELSE other

\* WebVideoRecordingSystem.start_system: rejected while running; an error
\* too when start_buffering fails (the unopened capture stays in self.cap);
\* else the capture loop is started, start_detection is called, is_running
\* is set and the counters are reset.
WebStartSystem ==
    /\ stop_pc \in {"idle", "done"}
    /\ det_stop_pc = "idle"
    /\ \E opened \in BOOLEAN :
        IF ~Proceeds(is_running)
        THEN /\ web_response' = Answer(is_running, "start", "already running",
                                       web_response)
             /\ UNCHANGED <<cap, is_recording, loop_pc, start_result,
                            is_running, det_is_running, det_pc, overlapped,
                            events_detected, clips_saved>>
        ELSE /\ cap' = IF opened THEN "open" ELSE "unopened"
             /\ IF InitializeCamera(opened)
                THEN /\ loop_pc[NewLoop] = "unborn"
                     /\ is_recording' = TRUE
                     /\ loop_pc' = [loop_pc EXCEPT ![NewLoop] = "while"]
                     /\ start_result' = "True"
                     /\ IF det_is_running
                        THEN UNCHANGED <<det_is_running, det_pc, overlapped>>
                        ELSE /\ det_pc[NewDetector] = "unborn"
                             /\ det_is_running' = TRUE
                             /\ det_pc' = [det_pc EXCEPT ![NewDetector] = "while"]
                             /\ overlapped' =
                                    (overlapped \/ \E d \in Detectors : DetAlive(d))
                     /\ is_running' = TRUE
                     /\ events_detected' = 0
                     /\ clips_saved' = 0
                     /\ web_response' =
                            Answer(is_running, "start", "already running",
                                   Response("start", "success", "started"))
                ELSE /\ start_result' = "False"
                     /\ web_response' =
                            Answer(is_running, "start", "already running",
                                   Response("start", "error", "no buffering"))
                     /\ UNCHANGED <<is_recording, loop_pc, is_running,
                                    det_is_running, det_pc, overlapped,
                                    events_detected, clips_saved>>
    /\ UNCHANGED <<buffer, frame_timestamps, buffer_lock, deviceVars, pushed,
                   loop_frame, loop_time, clipVars, stop_pc, view_pc, info_pc,
                   cb_pc, cb_tmp, calls, saved, web_pc, clock,
                   last_event_time, det_now, det_wake, delivered, det_stop_pc,
                   det_join_at, latest_event, metaVars, filepath>>

\* WebVideoRecordingSystem.stop_system: rejected while not running; else
\* is_running = False, stop_detection (the flag; its join ends at once or
\* times out) and stop_buffering (the flag, cap.release(), cap = None).
WebStopSystem ==
    /\ stop_pc \in {"idle", "done"}
    /\ det_stop_pc = "idle"
    /\ IF ~Proceeds(~is_running)
       THEN /\ web_response' = Answer(~is_running, "stop", "not running",
                                      web_response)
            /\ UNCHANGED <<is_running, det_is_running, is_recording, cap>>
       ELSE /\ is_running' = FALSE
            /\ det_is_running' = FALSE
            /\ is_recording' = FALSE
            /\ cap' = IF CapIsSet(cap) THEN None ELSE cap
            /\ web_response' = Answer(~is_running, "stop", "not running",
                                      Response("stop", "success", "stopped"))
    /\ UNCHANGED <<buffer, frame_timestamps, buffer_lock, deviceVars, pushed,
                   loopVars, clipVars, stop_pc, view_pc, info_pc, start_result,
                   events_detected, clips_saved, cb_pc, cb_tmp, calls, saved,
                   web_pc, detVars, latest_event, metaVars, filepath>>

\* WebVideoRecordingSystem.trigger_event: rejected while not running; else
\* simulate_specific_event builds the event and calls on_event_detected in
\* the handler's thread: the event is counted and kept as latest_event, the
\* clip and its metadata are saved or not, and a saved clip is counted.
WebTriggerEvent ==
    /\ IF ~Proceeds(~is_running)
       THEN /\ web_response' = Answer(~is_running, "trigger", "not running",
                                      web_response)
            /\ UNCHANGED <<delivered, events_detected, latest_event,
                           clips_saved, saved>>
       ELSE /\ Len(delivered) < MaxEvents
            /\ delivered' = Append(delivered, <<clock, "manual">>)
            /\ events_detected' = events_detected + 1
            /\ latest_event' = <<clock, "manual">>
            /\ \E ok \in BOOLEAN :
                   /\ clips_saved' = IF ok THEN clips_saved + 1 ELSE clips_saved
                   /\ saved' = IF ok THEN saved + 1 ELSE saved
            /\ web_response' =
                   Answer(~is_running, "trigger", "not running",
                          Response("trigger", "success", "triggered"))
    /\ UNCHANGED <<bufVars, sysVars, cb_pc, cb_tmp, calls, web_pc, clock,
                   last_event_time, det_pc, det_now, det_wake, det_stop_pc,
                   det_join_at, overlapped, metaVars, filepath>>

\* The web system's requests, served one at a time in any order, with time
\* passing between them.
WebNext ==
    \/ WebStartSystem
    \/ WebStopSystem
    \/ WebTriggerEvent
    \/ Tick

WebSpec == Init /\ [][WebNext]_vars

\* MetadataManager.  An entry of the catalog is kept by its id, its
\* timestamp (the second of the clip) and the path of its video file.

\* A cleanup that drops the entries made exactly at the cutoff too.
IsRecent_Strict(event_date, cutoff) == event_date > cutoff

\* if event_date >= cutoff_date
IsRecent(event_date, cutoff) == event_date >= cutoff

\* 'id': len(existing_metadata) + 1
NextId(existing) == Len(existing) + 1

\* save_event_metadata(clip_info), called by thread c, up to the append:
\* load_metadata reads the file, the entry is built and appended to the
\* list in memory.  The clip's file was written before the call.
SaveLoad(c) ==
    /\ meta_pc[c] = "idle"
    /\ saved + Cardinality({d \in Clips : meta_pc[d] = "loaded"}) < MaxEvents
    /\ \E type \in EventTypes :
           /\ existing_metadata' =
                  [existing_metadata EXCEPT ![c] =
                       Append(metadata_file,
                              [id |-> NextId(metadata_file), timestamp |-> clock,
                               filepath |-> <<clock, type>>])]
           /\ files' = files \cup {<<clock, type>>}
    /\ meta_pc' = [meta_pc EXCEPT ![c] = "loaded"]
    /\ UNCHANGED <<bufVars, sysVars, events_detected, clips_saved, cb_pc,
                   cb_tmp, calls, saved, web_pc, detVars, webVars,
                   metadata_file, cleanup_pc, cleanup_metadata,
                   cutoff_date, cleanup_result, filepath>>

\* save_metadata(existing_metadata) writes the whole list over the file;
\* the entry is returned
SaveWrite(c) ==
    /\ meta_pc[c] = "loaded"
    /\ metadata_file' = existing_metadata[c]
    /\ existing_metadata' = [existing_metadata EXCEPT ![c] = <<>>]
    /\ meta_pc' = [meta_pc EXCEPT ![c] = "idle"]
    /\ saved' = saved + 1
    /\ UNCHANGED <<bufVars, sysVars, events_detected, clips_saved, cb_pc,
                   cb_tmp, calls, web_pc, detVars, webVars, files,
                   cleanup_pc, cleanup_metadata, cutoff_date, cleanup_result,
                   filepath>>

\* cleanup_old_events(days): cutoff_date = now - days; metadata =
\* load_metadata()
CleanupLoad ==
    /\ cleanup_pc \in {"idle", "done"}
    /\ \E days \in 0..MaxDays : cutoff_date' = clock - days
    /\ cleanup_metadata' = metadata_file
    /\ cleanup_pc' = "loaded"
    /\ UNCHANGED <<bufVars, sysVars, events_detected, clips_saved, cb_pc,
                   cb_tmp, calls, saved, web_pc, detVars, webVars,
                   metadata_file, files, meta_pc, existing_metadata,
                   cleanup_result, filepath>>

\* The for loop of cleanup_old_events from entry i on: keep is
\* events_to_keep, count is deleted_count, fs the files that exist;
\* os.remove succeeds on the paths in removable and raises OSError on the
\* others.
RECURSIVE CleanupLoop(_, _, _, _, _, _, _)
CleanupLoop(metadata, cutoff, removable, i, keep, count, fs) ==
    IF i > Len(metadata)
    THEN [events_to_keep |-> keep, deleted_count |-> count, files |-> fs]
    ELSE IF IsRecent(metadata[i].timestamp, cutoff)
         THEN CleanupLoop(metadata, cutoff, removable, i + 1,
                          Append(keep, metadata[i]), count, fs)
         ELSE IF metadata[i].filepath \in fs /\ metadata[i].filepath \in removable
              THEN CleanupLoop(metadata, cutoff, removable, i + 1, keep,
                               count + 1, fs \ {metadata[i].filepath})
              ELSE CleanupLoop(metadata, cutoff, removable, i + 1, keep,
                               count, fs)

\* the loop, save_metadata(events_to_keep) and the result
CleanupWrite ==
    /\ cleanup_pc = "loaded"
    /\ \E removable \in SUBSET files :
           LET end == CleanupLoop(cleanup_metadata, cutoff_date, removable, 1,
                                  <<>>, 0, files)
           IN  /\ metadata_file' = end.events_to_keep
               /\ files' = end.files
               /\ cleanup_result' =
                      [deleted_events |-> end.deleted_count,
                       remaining_events |-> Len(end.events_to_keep)]
    /\ cleanup_metadata' = <<>>
    /\ cutoff_date' = 0
    /\ cleanup_pc' = "done"
    /\ UNCHANGED <<bufVars, sysVars, events_detected, clips_saved, cb_pc,
                   cb_tmp, calls, saved, web_pc, detVars, webVars, meta_pc,
                   existing_metadata, filepath>>

\* Saving only: the detection thread's callback and a manual trigger save
\* metadata while time passes.
SaveNext ==
    \/ \E c \in Clips : SaveLoad(c)
    \/ \E c \in Clips : SaveWrite(c)
    \/ Tick

SaveSpec == Init /\ [][SaveNext]_vars

\* The catalog over days: the recorder saves metadata (one callback at a
\* time), the command line interface cleans up once, and time passes.
OneCleanup ==
    /\ cleanup_pc = "idle"
    /\ CleanupLoad

CleanupNext ==
    \/ SaveLoad("detector")
    \/ SaveWrite("detector")
    \/ OneCleanup
    \/ CleanupWrite
    \/ Tick

CleanupSpec == Init /\ [][CleanupNext]_vars

\* save_event_clip is entered by thread c: timestamp = datetime.now();
\* filename = event_<second>_<type>.mp4; filepath = RECORDINGS_DIR/filename.
\* The path is kept as the pair of the second and the event's type.
FileName(second, type) == <<second, type>>

ClipBuildPath(c) ==
    /\ clip_pc[c] = "idle"
    /\ filepath[c] = <<>>
    /\ \E type \in EventTypes :
           filepath' = [filepath EXCEPT ![c] = FileName(clock, type)]
    /\ UNCHANGED <<bufVars, sysVars, events_detected, clips_saved, cb_pc,
                   cb_tmp, calls, saved, web_pc, detVars, webVars, metaVars>>

\* Clips and their files: one recording session, two callers of
\* save_event_clip, each building its path before its snapshot, and time
\* passing.  The assemblies are followed until their pre-roll is in the
\* file; the post-roll adds nothing to the path.
PathSnapshot(c) ==
    /\ filepath[c] # <<>>
    /\ ClipSnapshotFrames(c)

PathNext ==
    \/ SessionStart
    \/ Tick
    \/ \E l \in Loops : LoopWhile(l)
    \/ \E l \in Loops : LoopRead(l)
    \/ \E l \in Loops : LoopNow(l)
    \/ \E l \in Loops : LoopAppendFrame(l)
    \/ \E l \in Loops : LoopAppendTime(l)
    \/ \E c \in Clips : ClipBuildPath(c)
    \/ \E c \in Clips : PathSnapshot(c)
    \/ \E c \in Clips : ClipSnapshotTimes(c)
    \/ \E c \in Clips : ClipOpenWriter(c)
    \/ \E c \in Clips : ClipWritePreRoll(c)

PathSpec == Init /\ [][PathNext]_vars

\* The life cycle of the detector: the main thread calls start_detection,
\* stop_detection and simulate_specific_event any number of times, in any
\* order.
DetLifeNext ==
    \/ StartDetection
    \/ StopDetection
    \/ StopJoinReturns
    \/ Tick
    \/ \E d \in Detectors : DetWhile(d)
    \/ \E d \in Detectors : DetCheck(d)
    \/ \E d \in Detectors : DetCallbackReturns(d)
    \/ \E d \in Detectors : DetSleep(d)
    \/ SimulateSpecificEvent

DetLifeSpec == Init /\ [][DetLifeNext]_vars

----------------------------------------------------------------------------
\* Vocabulary of the properties.

StrictlyIncreasing(s) == \A i \in 1..(Len(s) - 1) : s[i] < s[i + 1]

Elems(s) == {s[i] : i \in 1..Len(s)}

\* The frames, and the timestamps, of a sequence of pushes.
Frames(ps) == [i \in 1..Len(ps) |-> ps[i][1]]
Times(ps) == [i \in 1..Len(ps) |-> ps[i][2]]

\* The deque contents after the first k pushes.
WindowAfter(ps, k) == LastN(SubSeq(ps, 1, k), Capacity)

\* save_event_clip of c has finished copying the deques.
SnapshotTaken(c) == clip_pc[c] \notin {"idle", "copy_ts"}

\* The frames c wrote to its writer after the pre-roll.
PostRoll(c) == SubSeq(sink[c], Len(buffered_frames[c]) + 1, Len(sink[c]))

Returned(c) == clip_pc[c] = "done"

ReturnedClip(c) == Returned(c) /\ clip_info[c].kind = "clip"

----------------------------------------------------------------------------
\* C1: after any number N of pushes by the capture loop the ring buffer holds
\* exactly the last min(N, capacity) pushed frames, oldest first, and the
\* retained pushes are in strictly increasing timestamp order.
C1_RingHoldsLastPushes ==
    /\ buffer = LastN(Frames(pushed), Capacity)
    /\ StrictlyIncreasing(Times(LastN(pushed, Capacity)))
    /\ StrictlyIncreasing(buffer)

\* More pushes than the capacity: the oldest frame has been evicted.
C1_Witness ==
    /\ Len(pushed) > Capacity
    /\ Len(buffer) = Capacity
    /\ buffer[1] # pushed[1][1]

\* C2: the snapshot a clip copies (frames and timestamps) is the content of
\* the ring buffer after some whole number k of pushes: no push is half in it.
C2_SnapshotLinearizable ==
    \A c \in Clips :
        SnapshotTaken(c) =>
            \E k \in 0..Len(pushed) :
                /\ buffered_frames[c] = Frames(WindowAfter(pushed, k))
                /\ buffered_timestamps[c] = Times(WindowAfter(pushed, k))

\* A snapshot taken while the capture loop holds a frame it has read and
\* not yet pushed: that push is entirely outside the snapshot.
C2_Witness ==
    \E c \in Clips :
        /\ clip_pc[c] = "open"
        /\ Len(buffered_frames[c]) = Capacity
        /\ loop_pc["loop"] = "lock"
        /\ loop_frame["loop"] \notin Elems(buffered_frames[c])

\* C3: a returned clip reports frames_count = pre-roll frames + post-roll
\* frames written to the sink, and duration = frames_count / FPS.
C3_CountAndDuration ==
    \A c \in Clips :
        ReturnedClip(c) =>
            /\ clip_info[c].frames_count
                   = Len(buffered_frames[c]) + Len(PostRoll(c))
            /\ clip_info[c].frames_count = Len(sink[c])
            /\ clip_info[c].duration.parts \in 0..(FPS - 1)
            /\ clip_info[c].duration.whole * FPS + clip_info[c].duration.parts
                   = clip_info[c].frames_count

\* A returned clip with pre-roll and post-roll whose length is no whole
\* number of seconds.
C3_Witness ==
    \E c \in Clips :
        /\ ReturnedClip(c)
        /\ Len(buffered_frames[c]) > 0
        /\ Len(PostRoll(c)) > 0
        /\ clip_info[c].frames_count % FPS # 0

----------------------------------------------------------------------------
C5_NoFrameLostToOtherClip ==
    \A a \in Clips : \A b \in Clips \ {a} :
        \A f \in Elems(PostRoll(a)) :
            ~ \E x \in Elems(PostRoll(b)) : \E y \in Elems(PostRoll(b)) :
                  x < f /\ f < y

\* C6 as claimed: a clip assembly that opened its writer always ends by
\* releasing the writer and returning a clip, also when stop_buffering runs
\* during its post-roll.
C6_StopMidPostRollYieldsClip ==
    \A c \in Clips :
        (Returned(c) /\ out[c] \in {"open", "released"}) =>
            /\ clip_info[c].kind = "clip"
            /\ out[c] = "released"

\* C7 as claimed: only the capture loop reads the frame source.
C7_OnlyCaptureLoopReads ==
    \A k \in 1..Len(readBy) : readBy[k] \in Loops

\* C8 as claimed: every post-roll frame of a clip was read by the capture
\* loop, and the post-roll is a gap-free run of the capture loop's frames that
\* continues right after the last pre-roll frame.
C8_PostRollFromCaptureLoop ==
    \A c \in Clips :
        /\ \A f \in Elems(PostRoll(c)) : readBy[f] \in Loops
        /\ \A i \in 1..(Len(sink[c]) - 1) :
               i >= Len(buffered_frames[c]) => sink[c][i + 1] = sink[c][i] + 1

\* A frame the capture loop has read and not yet appended.
InFlight(f) ==
    \E l \in Loops : loop_pc[l] \in {"now", "lock"} /\ f = loop_frame[l]

\* C9 as claimed: the ring buffer holds the most recent N <= capacity frames
\* read from the source, in increasing order with none missing (a frame the
\* capture loop is about to append aside).
C9_BufferIsMostRecentRun ==
    /\ Len(buffer) <= Capacity
    /\ \A i \in 1..(Len(buffer) - 1) : buffer[i + 1] = buffer[i] + 1
    /\ \A f \in 1..src :
           (buffer = <<>> \/ f > buffer[Len(buffer)]) => InFlight(f)

\* C10: the frames of a clip are in strictly increasing capture order, and
\* every post-roll frame is later than every frame of the pre-roll snapshot.
C10_ClipOrdered ==
    \A c \in Clips :
        /\ StrictlyIncreasing(sink[c])
        /\ \A f \in Elems(PostRoll(c)) :
               \A g \in Elems(buffered_frames[c]) : g < f

\* A returned clip with several pre-roll and several post-roll frames.
C10_Witness ==
    \E c \in Clips :
        /\ ReturnedClip(c)
        /\ Len(buffered_frames[c]) >= 2
        /\ Len(PostRoll(c)) >= 2

\* The step by which the thread holding buffer_lock leaves its with-block.
HolderReleases ==
    \/ \E c \in Clips : ClipSnapshotTimes(c)
    \/ \E l \in Loops : LoopAppendTime(l)
    \/ InfoRelease

\* C11: buffer_lock is held only inside the append (capture loop), the
\* snapshot copy (save_event_clip) and the length read (get_buffer_info), never
\* by a clip assembly that is past its snapshot; and a capture loop that has
\* read a frame and waits to push it can either take the lock at once or the
\* holder's next step releases it, however many clips are in flight.
C11_LockOnlyInCriticalSection ==
    /\ \A c \in Clips : buffer_lock = c <=> clip_pc[c] = "copy_ts"
    /\ \A l \in Loops : buffer_lock = l <=> loop_pc[l] = "append_ts"
    /\ buffer_lock = "info" <=> info_pc = "locked"
    /\ \A l \in Loops :
           loop_pc[l] = "lock" =>
               (ENABLED LoopAppendFrame(l)) \/ (ENABLED HolderReleases)

\* The capture loop waits to push while one clip copies the deques and the
\* other clip is in its post-roll.
C11_Witness ==
    /\ loop_pc["loop"] = "lock"
    /\ \E c \in Clips : \E d \in Clips \ {c} :
           /\ buffer_lock = c
           /\ clip_pc[d] \in {"post_check", "post_read"}

\* C12 as claimed: the post-roll loop makes at most POST_EVENT_SECONDS * FPS
\* iterations, and a save_event_clip that has written frames to its sink
\* returns only after releasing the sink, with a clip that counts exactly the
\* frames written.
C12_AssemblyFinalizesWhatWasWritten ==
    \A c \in Clips :
        /\ post_i[c] <= PostEventFrames
        /\ (Returned(c) /\ Len(sink[c]) > 0) =>
               /\ out[c] = "released"
               /\ clip_info[c].kind = "clip"
               /\ clip_info[c].frames_count = Len(sink[c])

\* C13 as claimed: while the capture loop is running, no start spawns
\* another producer thread.
C13_StartWhileRunningIsNoOp ==
    [][(is_recording /\ \E l \in Loops : Alive(l)) =>
           \A l \in Loops : loop_pc[l] = "unborn" => loop_pc'[l] = "unborn"]_vars

\* C14 as claimed: at most one capture-loop thread is alive at any moment.
C14_AtMostOneCaptureLoop ==
    Cardinality({l \in Loops : Alive(l)}) <= 1

\* C15: no step of stop_buffering raises; on a VideoBuffer that is not
\* recording and holds no capture its steps change neither is_recording, nor
\* cap, nor the deques; and when it returns is_recording is false and cap is
\* None.
C15_StopWhenNotRunning ==
    [][stop_pc' # stop_pc =>
           /\ stop_pc' # "raised"
           /\ (~is_recording /\ cap = None) =>
                  UNCHANGED <<is_recording, cap, buffer, frame_timestamps>>
           /\ stop_pc' = "done" => (~is_recording' /\ cap' = None)]_vars

\* stop_buffering has returned on a VideoBuffer that was never started.
C15_Witness ==
    /\ stop_pc = "done"
    /\ start_result = None
    /\ ~is_recording
    /\ cap = None

\* C16 as claimed: no capture loop ends with an unhandled exception, and the
\* capture is released or cleared only when no capture loop is alive.
C16_ReleaseAfterLoopExit ==
    \A l \in Loops :
        /\ loop_pc[l] # "crashed"
        /\ Alive(l) => cap \notin {"released", None}

\* The loop is inside an iteration that may still push: between its while
\* test and its append.
MayStillPush(l) == loop_pc[l] \in {"read", "now", "lock"}

\* C17 as claimed: once the running flag is cleared (and stays so), a capture
\* loop that is not inside an iteration starts no new one, every push ends the
\* iteration of the loop that makes it (so each loop pushes at most one
\* further frame), and no loop leaves through an exception.
C17_LoopSeesFlagAndExits ==
    [][(~is_recording /\ ~is_recording') =>
           /\ \A l \in Loops : ~MayStillPush(l) => ~MayStillPush(l)'
           /\ pushed' # pushed =>
                  \E l \in Loops : MayStillPush(l) /\ ~MayStillPush(l)'
           /\ \A l \in Loops : loop_pc'[l] # "crashed"]_vars

\* C18: a start whose camera does not open returns False and changes neither
\* is_recording nor the set of capture-loop threads, and start_system then
\* leaves its own is_running and the detector's is_running as they were.
C18_FailedOpenStartsNothing ==
    [][(cap # "unopened" /\ cap' = "unopened") =>
           /\ start_result' = "False"
           /\ UNCHANGED <<is_recording, loop_pc, is_running, det_is_running>>]_vars

\* The camera did not open on the first start: nothing is running.
C18_Witness ==
    /\ cap = "unopened"
    /\ start_result = "False"
    /\ ~is_recording
    /\ ~is_running
    /\ ~det_is_running
    /\ \A l \in Loops : loop_pc[l] = "unborn"

C20_FailedReadRecoveredLocally ==
    [][\A l \in Loops :
           /\ (loop_pc[l] = "read" /\ loop_pc'[l] = "failed") =>
                  UNCHANGED <<buffer, frame_timestamps, pushed, clip_info>>
           /\ (loop_pc[l] = "failed" /\ loop_pc'[l] # "failed") =>
                  /\ loop_pc'[l] = "while"
                  /\ UNCHANGED <<buffer, frame_timestamps, pushed, clip_info>>
           /\ (loop_pc[l] = "while" /\ is_recording /\ loop_pc'[l] # "while") =>
                  loop_pc'[l] = "read"]_vars

\* A read has just failed on a recording capture loop with frames buffered.
C20_Witness ==
    \E l \in Loops :
        /\ loop_pc[l] = "failed"
        /\ is_recording
        /\ cap = "open"
        /\ Len(buffer) >= 1

\* C21: a save_event_clip that ends because its writer did not open or a
\* write raised returns None, and that step changes neither the deques, nor
\* the running flag, the capture, the lock or the capture loop, nor anything
\* of the other clip assembly.
C21_SinkFailureAbortsOnlyItsClip ==
    [][\A c \in Clips :
           (clip_pc[c] \in {"open", "preroll", "post_read"} /\ clip_pc'[c] = "done") =>
               /\ clip_info'[c].kind = "None"
               /\ UNCHANGED <<buffer, frame_timestamps, is_recording, cap,
                              buffer_lock, pushed, loopVars>>
               /\ \A d \in Clips \ {c} :
                      /\ clip_pc'[d] = clip_pc[d]
                      /\ buffered_frames'[d] = buffered_frames[d]
                      /\ out'[d] = out[d]
                      /\ sink'[d] = sink[d]
                      /\ frames_written'[d] = frames_written[d]
                      /\ clip_info'[d] = clip_info[d]]_vars

\* One assembly was aborted by a write that raised after frames had been
\* written; the other returned its clip and the capture loop still runs.
C21_Witness ==
    \E c \in Clips : \E d \in Clips \ {c} :
        /\ Returned(c)
        /\ clip_info[c].kind = "None"
        /\ Len(sink[c]) >= 1
        /\ ReturnedClip(d)
        /\ is_recording
        /\ Alive("loop")

\* C22 as claimed: no save_event_clip returns with its writer still open.
C22_WriterReleasedOnEveryPath ==
    \A c \in Clips : Returned(c) => out[c] # "open"

\* The states of a clip assembly, in their order: Created (before and during
\* the snapshot and the opening of the writer), WritingPreRoll,
\* WritingPostRoll, Finalizing, and Completed or Aborted.
ClipRank(pc) ==
    CASE pc = "idle" -> 0
      [] pc = "copy_ts" -> 1
      [] pc = "open" -> 2
      [] pc = "preroll" -> 3
      [] pc \in {"post_check", "post_read"} -> 4
      [] pc = "finish" -> 5
      [] pc = "done" -> 6

\* C23: a clip assembly never goes back in the order Created, WritingPreRoll,
\* WritingPostRoll, Finalizing, ended; a frame is written after the pre-roll
\* step only by the post-roll and on top of the whole pre-roll; the writer is
\* released only by the finalizing step after all post-roll iterations; an
\* ended assembly changes no more; it has returned a clip exactly when its
\* writer was released, and None otherwise.
C23_AssemblyStateOrder ==
    [][\A c \in Clips :
           /\ ClipRank(clip_pc'[c]) >= ClipRank(clip_pc[c])
           /\ clip_pc[c] = "done" =>
                  /\ clip_pc'[c] = "done"
                  /\ clip_info'[c] = clip_info[c]
                  /\ sink'[c] = sink[c]
                  /\ out'[c] = out[c]
           /\ (sink'[c] # sink[c] /\ clip_pc[c] # "preroll") =>
                  /\ clip_pc[c] = "post_read"
                  /\ SubSeq(sink[c], 1, Len(buffered_frames[c])) = buffered_frames[c]
           /\ (out'[c] = "released" /\ out[c] # "released") =>
                  /\ clip_pc[c] = "finish"
                  /\ post_i[c] = PostEventFrames
           /\ clip_info'[c].kind = "clip" <=>
                  (clip_pc'[c] = "done" /\ out'[c] = "released")
           /\ clip_info'[c].kind = "None" <=>
                  (clip_pc'[c] = "done" /\ out'[c] # "released")]_vars

\* One assembly completed with a full post-roll, the other was aborted with
\* its writer open.
C23_Witness ==
    \E c \in Clips : \E d \in Clips \ {c} :
        /\ ReturnedClip(c)
        /\ out[c] = "released"
        /\ Len(PostRoll(c)) = PostEventFrames
        /\ Returned(d)
        /\ clip_info[d].kind = "None"
        /\ out[d] = "open"

\* save_event_clip of c has written its pre-roll.
PreRollWritten(c) ==
    \/ clip_pc[c] \in {"post_check", "post_read", "finish"}
    \/ ReturnedClip(c)

\* C24: the frames at the head of what a clip assembly has written are the
\* frames of its snapshot: all of them, the same frames, in the snapshot's
\* order.
C24_ClipStartsWithSnapshot ==
    \A c \in Clips :
        PreRollWritten(c) =>
            /\ Len(sink[c]) >= Len(buffered_frames[c])
            /\ \A i \in 1..Len(buffered_frames[c]) : sink[c][i] = buffered_frames[c][i]

\* A returned clip that starts with a full snapshot, followed by post-roll,
\* while the ring buffer has moved on.
C24_Witness ==
    \E c \in Clips :
        /\ ReturnedClip(c)
        /\ Len(buffered_frames[c]) = Capacity
        /\ Len(sink[c]) > Capacity
        /\ buffer # buffered_frames[c]

\* C25: once taken, the snapshot of a clip assembly never changes, whatever
\* the capture loop pushes or evicts and whatever the other assembly copies,
\* and the pre-roll step writes that snapshot, not what the ring buffer holds
\* by then.
C25_SnapshotIndependentOfBuffer ==
    [][\A c \in Clips :
           /\ clip_pc[c] # "idle" => buffered_frames'[c] = buffered_frames[c]
           /\ SnapshotTaken(c) => buffered_timestamps'[c] = buffered_timestamps[c]
           /\ (clip_pc[c] = "preroll" /\ clip_pc'[c] = "post_check") =>
                  sink'[c] = buffered_frames[c]]_vars

\* The pre-roll of c was written from a snapshot that the ring buffer no
\* longer equals, and the other assembly holds a different snapshot.
C25_Witness ==
    \E c \in Clips : \E d \in Clips \ {c} :
        /\ clip_pc[c] = "post_check"
        /\ post_i[c] = 0
        /\ sink[c] = buffered_frames[c]
        /\ Len(buffered_frames[c]) = Capacity
        /\ buffer # buffered_frames[c]
        /\ SnapshotTaken(d)
        /\ buffered_frames[d] # buffered_frames[c]

\* C26: a snapshot never has more than BUFFER_SECONDS * FPS frames, the
\* post-roll never more than POST_EVENT_SECONDS * FPS, and frames_written and
\* the frames_count of a returned clip never exceed
\* (BUFFER_SECONDS + POST_EVENT_SECONDS) * FPS.
C26_ClipLengthBounded ==
    \A c \in Clips :
        /\ Len(buffered_frames[c]) <= BUFFER_SECONDS * FPS
        /\ Len(PostRoll(c)) <= POST_EVENT_SECONDS * FPS
        /\ frames_written[c] <= (BUFFER_SECONDS + POST_EVENT_SECONDS) * FPS
        /\ ReturnedClip(c) =>
               clip_info[c].frames_count <= (BUFFER_SECONDS + POST_EVENT_SECONDS) * FPS

\* A returned clip of the greatest length.
C26_Witness ==
    \E c \in Clips :
        /\ ReturnedClip(c)
        /\ clip_info[c].frames_count = (BUFFER_SECONDS + POST_EVENT_SECONDS) * FPS

\* C27 as claimed: clips_saved never exceeds events_detected.
C27_ClipsAtMostEvents ==
    clips_saved <= events_detected

\* C28 as claimed: whenever no callback is running, events_detected is the
\* number of on_event_detected invocations and clips_saved the number of
\* those that saved clip and metadata.
C28_CountersCountInvocations ==
    (\A c \in Clips : cb_pc[c] = "idle") =>
        /\ events_detected = calls
        /\ clips_saved = saved

\* The events of the sequence ds that came from a detection loop.
FromLoop(ds) == {i \in 1..Len(ds) : ds[i][2] \in Detectors}

C30_AtMostOneDetectionLoop ==
    Cardinality({d \in Detectors : DetAlive(d)}) <= 1

\* What a rejected request may not touch: the system's flag and counters,
\* the latest event, the threads and their flags, the events generated and
\* the clips.
WebFrame == <<is_running, events_detected, clips_saved, latest_event, loop_pc,
              det_pc, is_recording, det_is_running, delivered, saved, clipVars>>

\* C31: in the web system a request answered with status "error" leaves
\* is_running, events_detected, clips_saved and latest_event as they were,
\* starts and stops no thread and generates no event and no clip; the three
\* guard rejections (start while running, stop and trigger while not
\* running) change nothing at all but the response.
C31_RejectedHasNoEffect ==
    [][(web_response'.status = "error" /\ web_response' # web_response)
         => /\ UNCHANGED WebFrame
            /\ web_response'.message # "no buffering" => UNCHANGED cap]_vars

\* trigger_event was rejected after a session that had counted an event and
\* a clip.
C31_Witness ==
    /\ web_response = Response("trigger", "error", "not running")
    /\ ~is_running
    /\ events_detected > 0
    /\ clips_saved > 0
    /\ latest_event # <<>>

\* C32 as claimed: no two entries of the catalog have the same id.
C32_IdsUnique ==
    \A i \in 1..Len(metadata_file) : \A j \in 1..Len(metadata_file) :
        i # j => metadata_file[i].id # metadata_file[j].id

\* C33 as claimed: an entry of the catalog (each was returned by the
\* save_event_metadata that wrote it) stays in the catalog through every
\* step other than the write of a cleanup.
C33_NoEntryLost ==
    [][cleanup_pc' = cleanup_pc
         => Elems(metadata_file) \subseteq Elems(metadata_file')]_vars

\* The entries of the list ms at or after the cutoff, in the order of ms.
Kept(ms, cutoff) == SelectSeq(ms, LAMBDA m : m.timestamp >= cutoff)

\* The paths of the entries of ms older than the cutoff.
OldPaths(ms, cutoff) ==
    {ms[i].filepath : i \in {j \in 1..Len(ms) : ms[j].timestamp < cutoff}}

\* C34: a cleanup_old_events that returns has written to the catalog
\* exactly the entries it loaded whose timestamp is at or after the cutoff,
\* in their order; remaining_events is their number; deleted_events is the
\* number of files it removed, all of them files of older entries; and no
\* file of a kept entry only is touched.
C34_CleanupKeepsRecent ==
    [][(cleanup_pc = "loaded" /\ cleanup_pc' = "done")
         => /\ metadata_file' = Kept(cleanup_metadata, cutoff_date)
            /\ cleanup_result'.remaining_events = Len(metadata_file')
            /\ cleanup_result'.deleted_events = Cardinality(files \ files')
            /\ files' \subseteq files
            /\ (files \ files') \subseteq OldPaths(cleanup_metadata, cutoff_date)]_vars

\* A cleanup dropped an older entry whose file could not be removed, kept a
\* newer one, and removed some other file.
C34_Witness ==
    /\ cleanup_pc = "done"
    /\ cleanup_result.remaining_events > 0
    /\ cleanup_result.deleted_events > 0
    /\ Len(metadata_file) = cleanup_result.remaining_events
    /\ \E p \in files : \A i \in 1..Len(metadata_file) :
           metadata_file[i].filepath # p

\* The assemblies that have opened a writer on their path.
Writes(c) == out[c] \in {"open", "released"}

\* C35 as claimed: two clip assemblies that write never have the same file
\* path.
C35_DistinctPaths ==
    \A c \in Clips : \A d \in Clips :
        (c # d /\ Writes(c) /\ Writes(d)) => filepath[c] # filepath[d]

\* The lists fs and ts have the same length and, element by element, are
\* the frames and capture times of the last pushes.
Matching(fs, ts) ==
    /\ Len(fs) = Len(ts)
    /\ Len(fs) <= Len(pushed)
    /\ \A i \in 1..Len(fs) : \E k \in 1..Len(pushed) :
           pushed[k] = <<fs[i], ts[i]>>

\* C36: whenever the capture loop does not hold buffer_lock, the frame
\* deque and the timestamp deque have the same length, at most
\* BUFFER_SECONDS * FPS, and the i-th timestamp is the capture time of the
\* i-th frame; so the two lists of every snapshot match, and
\* get_buffer_info, which holds the lock, reads the length of matching
\* deques.
C36_DequesMatch ==
    /\ buffer_lock \notin Loops
         => /\ Matching(buffer, frame_timestamps)
            /\ Len(buffer) <= Capacity
            /\ \A i \in 1..Len(buffer) :
                   <<buffer[i], frame_timestamps[i]>>
                       = pushed[Len(pushed) - Len(buffer) + i]
    /\ \A c \in Clips :
           SnapshotTaken(c) => Matching(buffered_frames[c], buffered_timestamps[c])

\* get_buffer_info holds the lock on a full buffer that has already dropped
\* a frame, while the capture loop waits for the lock with its next frame.
C36_Witness ==
    /\ buffer_lock = "info"
    /\ Len(buffer) = Capacity
    /\ Len(pushed) > Capacity
    /\ \E l \in Loops : loop_pc[l] = "lock"

====
